---- MODULE Spec2Model ----
(***************************************************************************)
(* SoulDOS: an interactive shell (src/src/main.rs) that dispatches a fixed *)
(* set of commands to a mock hardware-abstraction layer (src/src/hal.rs).  *)
(*                                                                         *)
(* An input line is a sequence of characters. A character is a string: an  *)
(* ASCII character stands for itself, any other is written by its code     *)
(* point ("U+00A0"). Tokens, module names and printed text are strings.    *)
(***************************************************************************)
EXTENDS Integers, Sequences, FiniteSets, TLC

VARIABLES
    pc,        \* position of main: a boot step, "Reading", "Dispatching",
               \* "Terminated" (break out of the loop) or "Panicked"
    manifest,  \* MockHal.github_manifest
    lastRead,  \* outcome of the latest io::stdin().read_line
    command,   \* the parsed command waiting for handle_command, or NoCommand
    prompts,   \* number of read_line calls so far, each after a written prompt
    nparsed,   \* number of lines tokenized and given to Cli::try_parse_from
    halLog,    \* every HAL call that has returned so far, with its result
    out        \* everything written so far, one element per print!/println!/eprintln!

vars == <<pc, manifest, lastRead, command, prompts, nparsed, halLog, out>>

(***************************************************************************)
(* Bounds of the model.                                                    *)
(***************************************************************************)
MaxPrompts == 2
MaxCalls == 2

(***************************************************************************)
(* str primitives used by main.rs                                          *)
(***************************************************************************)
\* The characters of an ASCII string literal.
Chars(s) == [i \in 1..Len(s) |-> SubSeq(s, i, i)]

\* The string made of a sequence of characters.
RECURSIVE Str(_)
Str(t) == IF t = <<>> THEN "" ELSE Head(t) \o Str(Tail(t))

UpperCase == Chars("ABCDEFGHIJKLMNOPQRSTUVWXYZ")
LowerCase == Chars("abcdefghijklmnopqrstuvwxyz")

\* char::is_whitespace: the Unicode White_Space property.
WhiteSpace ==
    {"\t", "\n", "U+000B", "\f", "\r", " ", "U+0085", "U+00A0", "U+1680",
     "U+2000", "U+2001", "U+2002", "U+2003", "U+2004", "U+2005", "U+2006",
     "U+2007", "U+2008", "U+2009", "U+200A", "U+2028", "U+2029", "U+202F",
     "U+205F", "U+3000"}

is_whitespace(c) == c \in WhiteSpace

to_ascii_lowercase(c) ==
    IF \E i \in 1..Len(UpperCase) : UpperCase[i] = c
    THEN LowerCase[CHOOSE i \in 1..Len(UpperCase) : UpperCase[i] = c]
    ELSE c

eq_ignore_ascii_case(a, b) ==
    /\ Len(a) = Len(b)
    /\ \A i \in 1..Len(a) : to_ascii_lowercase(a[i]) = to_ascii_lowercase(b[i])

trim(s) ==
    LET solid == {i \in 1..Len(s) : ~is_whitespace(s[i])}
    IN  IF solid = {} THEN <<>>
        ELSE SubSeq(s, CHOOSE i \in solid : \A j \in solid : i <= j,
                       CHOOSE i \in solid : \A j \in solid : j <= i)

RECURSIVE SplitFrom(_, _, _, _)
SplitFrom(s, i, cur, acc) ==
    IF i > Len(s) THEN (IF cur = <<>> THEN acc ELSE Append(acc, cur))
    ELSE IF is_whitespace(s[i])
         THEN SplitFrom(s, i + 1, <<>>, IF cur = <<>> THEN acc ELSE Append(acc, cur))
         ELSE SplitFrom(s, i + 1, Append(cur, s[i]), acc)

split_whitespace(s) == SplitFrom(s, 1, <<>>, <<>>)

\* .map(String::from) over the tokens.
Strings(toks) == [i \in 1..Len(toks) |-> Str(toks[i])]

(***************************************************************************)
(* Writing to the terminal. println!, print!, eprintln! and flush().unwrap()*)
(* panic when the write fails; clap's print() and print_help() return the  *)
(* error instead. A piece of code is the sequence of its writes and of the *)
(* HAL calls that return, in program order.                                *)
(***************************************************************************)
P(text) == [k |-> "print", text |-> text, call |-> <<>>]
T(text) == [k |-> "try", text |-> text, call |-> <<>>]
C(call) == [k |-> "call", text |-> "", call |-> call]

Ps(texts) == [i \in 1..Len(texts) |-> P(texts[i])]

Prints(ev) ==
    LET ps == SelectSeq(ev, LAMBDA e : e.k \in {"print", "try"})
    IN  [i \in 1..Len(ps) |-> ps[i].text]

Calls(ev) ==
    LET cs == SelectSeq(ev, LAMBDA e : e.k = "call")
    IN  [i \in 1..Len(cs) |-> cs[i].call]

\* Run ev to its end and go to nextPc, or panic at one of its writes from
\* position `from` on, with everything before that write done.
Perform(ev, from, nextPc) ==
    \/ /\ out' = out \o Prints(ev)
       /\ halLog' = halLog \o Calls(ev)
       /\ pc' = nextPc
    \/ \E i \in from..Len(ev) :
          /\ ev[i].k = "print"
          /\ out' = out \o Prints(SubSeq(ev, 1, i - 1))
          /\ halLog' = halLog \o Calls(SubSeq(ev, 1, i - 1))
          /\ pc' = "Panicked"

(***************************************************************************)
(* hal.rs: MockHal                                                         *)
(***************************************************************************)
Ok(v) == [tag |-> "Ok", value |-> v]
Err(e) == [tag |-> "Err", msg |-> e]

LedgerSource == "GitHubBlockchainLedger (Simulated)"
InternalSource == "InternalManifest"

MockHal_new ==
    ("SoulOS_Core" :> [hash |-> "hash_core_123_abc", url |-> "gh://soulware/core/v1.0"]) @@
    ("TensorMemoryDriver" :> [hash |-> "hash_tensor_xyz_789", url |-> "gh://soulware/tensor/v0.9"]) @@
    ("EmotionalResonanceEngine" :> [hash |-> "hash_ere_qwerty_456", url |-> "gh://soulware/ere/v0.5"]) @@
    ("UserInterfaceModule" :> [hash |-> "hash_ui_zxcv_321", url |-> "gh://soulware/ui/v1.1"])

local_calculated_hash_always_expected(m, module_name) == m[module_name].hash

local_calculated_hash(m, module_name) ==
    IF module_name = "UserInterfaceModule" THEN "hash_ui_zxcv_FAIL" ELSE m[module_name].hash

verify_ledger_missing_is_mismatch(m, module_name) ==
    IF module_name \in DOMAIN m
    THEN Ok(local_calculated_hash(m, module_name) = m[module_name].hash)
    ELSE Ok(FALSE)

verify_ledger(m, module_name) ==
    IF module_name \in DOMAIN m
    THEN IF local_calculated_hash(m, module_name) = m[module_name].hash
         THEN Ok(TRUE)
         ELSE Ok(FALSE)
    ELSE Err("Module '" \o module_name \o "' not listed in the simulated GitHub Blockchain Ledger.")

verify_internal_without_allow_list(m, module_name) ==
    IF module_name \in DOMAIN m
    THEN Ok(TRUE)
    ELSE Err("Core module '" \o module_name \o "' not recognized for internal check.")

verify_internal(m, module_name) ==
    IF module_name \in DOMAIN m \/ module_name = "RustHAL_Interface"
    THEN Ok(TRUE)
    ELSE Err("Core module '" \o module_name \o "' not recognized for internal check.")

verify_module_signature_membership_first(m, module_name, signature_source) ==
    IF module_name \notin DOMAIN m
    THEN Err("Module '" \o module_name \o "' not listed in the simulated GitHub Blockchain Ledger.")
    ELSE IF signature_source = LedgerSource THEN verify_ledger(m, module_name)
    ELSE IF signature_source = InternalSource THEN verify_internal(m, module_name)
    ELSE Err("Unknown signature source: " \o signature_source)

verify_module_signature(m, module_name, signature_source) ==
    IF signature_source = LedgerSource THEN verify_ledger(m, module_name)
    ELSE IF signature_source = InternalSource THEN verify_internal(m, module_name)
    ELSE Err("Unknown signature source: " \o signature_source)

\* The diagnostic println! calls of verify_module_signature, in order.
verify_module_signature_prints(m, module_name, signature_source) ==
    IF signature_source = LedgerSource THEN
        <<"MockHAL: Accessing GitHub manifest for module '" \o module_name \o "' via '"
              \o signature_source \o "'...">> \o
        (IF module_name \in DOMAIN m
         THEN <<"MockHAL: Found entry. Expected signature (from " \o m[module_name].url \o "): "
                    \o m[module_name].hash,
                "MockHAL: Calculated local signature for '" \o module_name \o "': "
                    \o local_calculated_hash(m, module_name)>> \o
              (IF local_calculated_hash(m, module_name) = m[module_name].hash
               THEN <<"MockHAL: Signature VERIFIED for '" \o module_name \o "'.">>
               ELSE <<"MockHAL: SIGNATURE MISMATCH for '" \o module_name \o "'! Expected '"
                          \o m[module_name].hash \o "', got '"
                          \o local_calculated_hash(m, module_name) \o "'.">>)
         ELSE <<"MockHAL: Module '" \o module_name \o "' not found in GitHub manifest.">>)
    ELSE IF signature_source = InternalSource THEN
        <<"MockHAL: Performing internal integrity check for core module '" \o module_name
              \o "' against '" \o signature_source \o "'...">> \o
        (IF module_name \in DOMAIN m \/ module_name = "RustHAL_Interface"
         THEN <<"MockHAL: Core module '" \o module_name \o "' integrity VERIFIED internally.">>
         ELSE <<"MockHAL: Core module '" \o module_name \o "' not recognized for internal check.">>)
    ELSE <<>>

get_system_status == Ok("MockStatus: System Optimal, Resonance Field Stable.")

get_emotional_map == Ok(<<"Joy: Bright Cloud", "Sadness: Blue Mist">>)

collapse_truth_waveform(emotion, mode, time_vector) ==
    Ok("MockHAL: Waveform collapsed to 'MockMemoryNode'")

collapse_truth_waveform_prints(emotion, mode, time_vector) ==
    <<"MockHAL: Collapsing truth waveform for emotion '" \o emotion \o "', mode '" \o mode
          \o "', time_vector '" \o time_vector \o "'">>

initialize_npu == Ok("MockHAL: NPU initialized and ready for ONNX models.")

run_onnx_model(model_path, inputs) ==
    Ok([info |-> "MockHAL: ONNX model " \o model_path \o " processed with input " \o inputs.info])

run_onnx_model_prints(model_path, inputs) ==
    <<"MockHAL: Running ONNX model " \o model_path \o " with input info: '" \o inputs.info \o "'">>

\* One entry of halLog.
Call(method, args, result) == [method |-> method, args |-> args, result |-> result]

VerifyCall(m, module_name, signature_source) ==
    Call("verify_module_signature", <<module_name, signature_source>>,
         verify_module_signature(m, module_name, signature_source))

\* A verify_module_signature call: its println!s, then its return.
verify_events(m, module_name, signature_source) ==
    Ps(verify_module_signature_prints(m, module_name, signature_source)) \o
    <<C(VerifyCall(m, module_name, signature_source))>>

(***************************************************************************)
(* main.rs: the command grammar (#[derive(Parser)] Cli, Commands)          *)
(***************************************************************************)
NoCommand == [variant |-> "None", args |-> <<>>]

\* Subcommand name -> variant and the number of positional values it takes.
Subcommands ==
    ("ver" :> [variant |-> "Ver", min |-> 0, max |-> 0]) @@
    ("date" :> [variant |-> "Date", min |-> 0, max |-> 0]) @@
    ("time" :> [variant |-> "Time", min |-> 0, max |-> 0]) @@
    ("cls" :> [variant |-> "Cls", min |-> 0, max |-> 0]) @@
    ("clear" :> [variant |-> "Clear", min |-> 0, max |-> 0]) @@
    ("ls" :> [variant |-> "Ls", min |-> 0, max |-> 0]) @@
    ("dir" :> [variant |-> "Dir", min |-> 0, max |-> 0]) @@
    ("status" :> [variant |-> "Status", min |-> 0, max |-> 0]) @@
    ("mem" :> [variant |-> "Mem", min |-> 0, max |-> 0]) @@
    ("check-module-integrity" :> [variant |-> "CheckModuleIntegrity", min |-> 0, max |-> 1]) @@
    ("system-integrity-check" :> [variant |-> "SystemIntegrityCheck", min |-> 0, max |-> 0]) @@
    ("ping" :> [variant |-> "Ping", min |-> 0, max |-> 0]) @@
    ("init-npu" :> [variant |-> "InitNpu", min |-> 0, max |-> 0]) @@
    ("map-emotion" :> [variant |-> "MapEmotion", min |-> 0, max |-> 0]) @@
    ("collapse-truth" :> [variant |-> "CollapseTruth", min |-> 3, max |-> 3]) @@
    ("run-onnx-test" :> [variant |-> "RunOnnxTest", min |-> 2, max |-> 2])

ParseOk(c) == [ok |-> TRUE, command |-> c]
ParseErr(k) == [ok |-> FALSE, kind |-> k]

IsFlag(t) == Len(t) > 1 /\ SubSeq(t, 1, 1) = "-"

\* The error a flag token ends in: --help and a short cluster starting with h
\* show the help, --version and a cluster starting with V show the version
\* (top level only), anything else is an unknown argument.
FlagKind(t, top) ==
    IF SubSeq(t, 1, 2) = "--"
    THEN (IF t = "--help" THEN "DisplayHelp"
          ELSE IF top /\ t = "--version" THEN "DisplayVersion"
          ELSE "UsageError")
    ELSE (IF SubSeq(t, 2, 2) = "h" THEN "DisplayHelp"
          ELSE IF top /\ SubSeq(t, 2, 2) = "V" THEN "DisplayVersion"
          ELSE "UsageError")

\* The positional values among toks[i..], read left to right: a flag is an
\* error unless it follows "--", and so is a value beyond the max allowed.
RECURSIVE Positionals(_, _, _, _, _)
Positionals(toks, i, trailing, acc, max) ==
    IF i > Len(toks) THEN [ok |-> TRUE, values |-> acc]
    ELSE IF ~trailing /\ toks[i] = "--" THEN Positionals(toks, i + 1, TRUE, acc, max)
    ELSE IF ~trailing /\ IsFlag(toks[i])
         THEN [ok |-> FALSE, kind |-> FlagKind(toks[i], FALSE)]
    ELSE IF Len(acc) >= max THEN [ok |-> FALSE, kind |-> "UsageError"]
    ELSE Positionals(toks, i + 1, trailing, Append(acc, toks[i]), max)

\* Cli::try_parse_from(args): args[1] is the binary name.
try_parse_from(args) ==
    LET toks == Tail(args) IN
    IF toks = <<>> THEN ParseOk(NoCommand)
    ELSE IF toks[1] = "--"
         THEN (IF Len(toks) = 1 THEN ParseOk(NoCommand) ELSE ParseErr("UsageError"))
    ELSE IF IsFlag(toks[1]) THEN ParseErr(FlagKind(toks[1], TRUE))
    ELSE IF toks[1] = "help"
         THEN (IF Len(toks) = 1 \/ (Len(toks) = 2 /\ toks[2] \in DOMAIN Subcommands \cup {"help"})
               THEN ParseErr("DisplayHelp") ELSE ParseErr("UsageError"))
    ELSE IF toks[1] \in DOMAIN Subcommands
         THEN LET sub == Subcommands[toks[1]]
                  pos == Positionals(toks, 2, FALSE, <<>>, sub.max)
              IN  IF ~pos.ok THEN ParseErr(pos.kind)
                  ELSE IF Len(pos.values) < sub.min THEN ParseErr("UsageError")
                  ELSE ParseOk([variant |-> sub.variant, args |-> pos.values])
    ELSE ParseErr("UsageError")

(***************************************************************************)
(* main.rs: printing helpers and handle_command                            *)
(***************************************************************************)
Digit(d) == SubSeq("0123456789", d + 1, d + 1)
Pad2(n) == Digit((n \div 10) % 10) \o Digit(n % 10)
Pad4(n) == Pad2(n \div 100) \o Pad2(n % 100)

RECURSIVE Decimal(_)
Decimal(n) == IF n < 10 THEN Digit(n) ELSE Decimal(n \div 10) \o Digit(n % 10)

\* %Y: four digits for the years 0..9999, otherwise a sign and at least four digits.
FormatYear(y) ==
    IF y \in 0..9999 THEN Pad4(y)
    ELSE LET a == IF y < 0 THEN 0 - y ELSE y IN
         (IF y < 0 THEN "-" ELSE "+") \o
         (IF a < 10 THEN "000" ELSE IF a < 100 THEN "00" ELSE IF a < 1000 THEN "0" ELSE "") \o
         Decimal(a)

FormatDate(now) == FormatYear(now.year) \o "-" \o Pad2(now.month) \o "-" \o Pad2(now.day)
FormatTime(now) == Pad2(now.hour) \o ":" \o Pad2(now.minute) \o ":" \o Pad2(now.second)

\* Values of Local::now().
Clock ==
    {[year |-> 2024, month |-> 2, day |-> 9, hour |-> 7, minute |-> 5, second |-> 3],
     [year |-> 10000, month |-> 12, day |-> 31, hour |-> 23, minute |-> 59, second |-> 58]}

ResultText(r, verified, failed, error) ==
    IF r.tag = "Err" THEN error \o r.msg ELSE IF r.value THEN verified ELSE failed

print_module_integrity_status(m, module_name, src) ==
    verify_events(m, module_name, src) \o
    <<P(ResultText(verify_module_signature(m, module_name, src),
          "  Core module '" \o module_name \o "' integrity: VERIFIED internally.",
          "  Core module '" \o module_name \o "' integrity: VERIFICATION FAILED internally.",
          "  Error checking core module '" \o module_name \o "' integrity: "))>>

print_module_integrity_status_for_command(m, module_name, src) ==
    LET r == verify_module_signature(m, module_name, src) IN
    <<P("  Checking '" \o module_name \o "' (source: " \o src \o ")... ")>> \o
    verify_events(m, module_name, src) \o
    <<P(IF r.tag = "Err" THEN "ERROR (" \o r.msg \o ")"
        ELSE IF r.value THEN "VERIFIED" ELSE "FAILED")>>

check_module_integrity(m, c) ==
    IF c.args # <<>>
    THEN LET name == c.args[1] IN
         <<P("\nChecking integrity of module: '" \o name \o "'...")>> \o
         verify_events(m, name, LedgerSource) \o
         <<P(ResultText(verify_module_signature(m, name, LedgerSource),
               "Module '" \o name \o "' integrity: VERIFIED",
               "Module '" \o name \o "' integrity: VERIFICATION FAILED",
               "Error checking module '" \o name \o "' integrity: "))>>
    ELSE <<P("Usage: check-module-integrity <module_name>")>>

system_integrity_check(m) ==
    Ps(<<"\nPerforming System Integrity Check...", "\nInternal Manifest Checks:">>) \o
    print_module_integrity_status_for_command(m, "SoulOS_Core", InternalSource) \o
    print_module_integrity_status_for_command(m, "TensorMemoryDriver", InternalSource) \o
    print_module_integrity_status_for_command(m, "RustHAL_Interface", InternalSource) \o
    <<P("\nGitHub Blockchain Ledger (Simulated) Checks:")>> \o
    print_module_integrity_status_for_command(m, "EmotionalResonanceEngine", LedgerSource) \o
    print_module_integrity_status_for_command(m, "UserInterfaceModule", LedgerSource) \o
    print_module_integrity_status_for_command(m, "NonExistentModule", LedgerSource)

handle_command(c, m, now) ==
    CASE c.variant = "Ver" ->
            <<P("SoulWare CLI Version 0.0.1-alpha (Handled by 'ver' command)")>>
      [] c.variant = "Date" -> <<P(FormatDate(now))>>
      [] c.variant = "Time" -> <<P(FormatTime(now))>>
      [] c.variant \in {"Cls", "Clear"} -> <<P("\\x1B[2J\\x1B[H")>>
      [] c.variant \in {"Ls", "Dir"} ->
            <<P("Placeholder: Listing directory contents or module status...")>>
      [] c.variant \in {"Status", "Mem"} ->
            <<P("\nFetching system status..."),
              C(Call("get_system_status", <<>>, get_system_status)),
              P(IF get_system_status.tag = "Ok"
                THEN "System Status: " \o get_system_status.value
                ELSE "Error fetching system status: " \o get_system_status.msg)>>
      [] c.variant = "CheckModuleIntegrity" -> check_module_integrity(m, c)
      [] c.variant = "SystemIntegrityCheck" -> system_integrity_check(m)
      [] c.variant = "Ping" -> <<P("pong!")>>
      [] c.variant = "InitNpu" ->
            <<P("\nInitializing NPU..."),
              C(Call("initialize_npu", <<>>, initialize_npu)),
              P(IF initialize_npu.tag = "Ok"
                THEN "NPU Status: " \o initialize_npu.value
                ELSE "Error initializing NPU: " \o initialize_npu.msg)>>
      [] c.variant = "MapEmotion" ->
            <<P("\nFetching emotional map from Tensor Field..."),
              C(Call("get_emotional_map", <<>>, get_emotional_map))>> \o
            Ps(IF get_emotional_map.tag = "Ok"
               THEN <<"Current Emotional Map in Tensor Field:">> \o
                    (IF get_emotional_map.value = <<>>
                     THEN <<"  Emotional map is currently clear.">>
                     ELSE [i \in 1..Len(get_emotional_map.value) |->
                              "  - " \o get_emotional_map.value[i]])
               ELSE <<"Error fetching emotional map: " \o get_emotional_map.msg>>)
      [] c.variant = "CollapseTruth" ->
            LET r == collapse_truth_waveform(c.args[1], c.args[2], c.args[3]) IN
            <<P("\nAttempting to collapse truth waveform for emotion '" \o c.args[1]
                    \o "', mode '" \o c.args[2] \o "', time '" \o c.args[3] \o "'...")>> \o
            Ps(collapse_truth_waveform_prints(c.args[1], c.args[2], c.args[3])) \o
            <<C(Call("collapse_truth_waveform", c.args, r)),
              P(IF r.tag = "Ok" THEN "Tensor Waveform Collapse Result: '" \o r.value \o "'"
                ELSE "Error during truth collapse: " \o r.msg)>>
      [] c.variant = "RunOnnxTest" ->
            LET tensor_input == [info |-> c.args[2]]
                r == run_onnx_model(c.args[1], tensor_input)
            IN
            <<P("\nAttempting to run ONNX model test for model: '" \o c.args[1]
                    \o "' with input: '" \o c.args[2] \o "'...")>> \o
            Ps(run_onnx_model_prints(c.args[1], tensor_input)) \o
            <<C(Call("run_onnx_model", c.args, r)),
              P(IF r.tag = "Ok" THEN "ONNX Model Test Result: '" \o r.value.info \o "'"
                ELSE "Error running ONNX model test: " \o r.msg)>>

(***************************************************************************)
(* main.rs: main                                                           *)
(***************************************************************************)
NoRead == [kind |-> "none", line |-> <<>>]

Banner ==
    <<"***************************************************",
      "*                                                 *",
      "*        Welcome to SoulWare CLI (SoulDOS)        *",
      "*                  Version 0.0.1-alpha            *",
      "*                                                 *",
      "***************************************************",
      "Initializing System...",
      "\nPerforming initial system integrity check...">>

\* The three modules checked at boot, in the order main checks them.
BootModules == <<"SoulOS_Core", "TensorMemoryDriver", "RustHAL_Interface">>

BootPcs == <<"BootCheck1", "BootCheck2", "BootCheck3">>

\* Values read_line can leave in `line`: a line ends in "\n" unless the
\* stream ended inside it.
Lines ==
    {Chars("\n"), Chars("  \t \n"), Chars("\r\n"),
     <<"U+000B", "\n">>, <<"U+3000", "U+0085", "U+2028", "\n">>,
     Chars("quit\n"), Chars("QUIT\n"), Chars("Exit\n"), Chars("  eXiT \r\n"), Chars("quit"),
     <<"U+000B">> \o Chars("quit\n"), <<"U+00A0">> \o Chars("Quit") \o <<"U+2003", "\n">>,
     Chars("exit now\n"), Chars("quitx\n"), Chars("help\n"), Chars("--\n"),
     Chars("--version\n"), Chars("-hx\n"), Chars("-Vh\n"), Chars("bogus\n"),
     Chars("ping\n"), Chars("PING\n"), Chars("ping extra\n"), Chars("ping extra --help\n"),
     Chars("ping") \o <<"U+000B">> \o Chars("extra\n"),
     Chars("ver\n"), Chars("date\n"), Chars("time\n"), Chars("cls\n"), Chars("clear\n"),
     Chars("ls\n"), Chars("dir\n"), Chars("status\n"), Chars("mem\n"),
     Chars("init-npu\n"), Chars("map-emotion\n"),
     Chars("system-integrity-check\n"),
     Chars("check-module-integrity\n"),
     Chars("check-module-integrity TensorMemoryDriver\n"),
     Chars(" check-module-integrity \t UserInterfaceModule\r\n"),
     Chars("check-module-integrity") \o <<"U+000B">> \o Chars("GhostModule\n"),
     Chars("check-module-integrity RustHAL_Interface"),
     Chars("check-module-integrity SoulOS_Core Extra\n"),
     Chars("check-module-integrity --help\n"),
     Chars("collapse-truth joy wave t0\n"), Chars("collapse-truth joy\n"),
     Chars("run-onnx-test model.onnx probe\n"), Chars("run-onnx-test -- -x --\n")}

Init ==
    /\ pc = "BootBanner"
    /\ manifest = MockHal_new
    /\ lastRead = NoRead
    /\ command = NoCommand
    /\ prompts = 0
    /\ nparsed = 0
    /\ halLog = <<>>
    /\ out = <<>>

\* main.rs 174-182: the banner and the heading of the integrity check.
BootBanner ==
    /\ pc = "BootBanner"
    /\ Perform(Ps(Banner), 1, "BootCheck1")
    /\ UNCHANGED <<manifest, lastRead, command, prompts, nparsed>>

\* main.rs 183-185: one of the three print_module_integrity_status calls.
BootIntegrity ==
    \E i \in 1..Len(BootPcs) :
        /\ pc = BootPcs[i]
        /\ Perform(print_module_integrity_status(manifest, BootModules[i], InternalSource), 1,
                   IF i < Len(BootPcs) THEN BootPcs[i + 1] ELSE "BootStatus")
        /\ UNCHANGED <<manifest, lastRead, command, prompts, nparsed>>

\* main.rs 188-192
BootStatus ==
    /\ pc = "BootStatus"
    /\ Perform(<<P("\nFetching initial system status..."),
                 C(Call("get_system_status", <<>>, get_system_status)),
                 P(IF get_system_status.tag = "Ok"
                   THEN "System Status: " \o get_system_status.value
                   ELSE "Failed to get status: " \o get_system_status.msg)>>,
               1, "BootNpu")
    /\ UNCHANGED <<manifest, lastRead, command, prompts, nparsed>>

\* main.rs 194-200
BootNpu ==
    /\ pc = "BootNpu"
    /\ Perform(<<P("\nAttempting to initialize NPU..."),
                 C(Call("initialize_npu", <<>>, initialize_npu)),
                 P(IF initialize_npu.tag = "Ok"
                   THEN "NPU Status: " \o initialize_npu.value
                   ELSE "Failed to initialize NPU: " \o initialize_npu.msg),
                 P("\nSystem Initialized. Type 'help' for available commands.")>>,
               1, "Reading")
    /\ UNCHANGED <<manifest, lastRead, command, prompts, nparsed>>

Prompt == "\nSoulDOS> "

\* main.rs 204-205: the prompt cannot be written, flush().unwrap() panics
\* before anything is read.
PromptPanics ==
    /\ pc = "Reading"
    /\ pc' = "Panicked"
    /\ UNCHANGED <<manifest, lastRead, command, prompts, nparsed, halLog, out>>

IsExitCaseSensitive(trimmed_line) ==
    trimmed_line = Chars("exit") \/ trimmed_line = Chars("quit")

IsExit(trimmed_line) ==
    eq_ignore_ascii_case(trimmed_line, Chars("exit"))
        \/ eq_ignore_ascii_case(trimmed_line, Chars("quit"))

\* main.rs 204, 213-246: the loop body once read_line has filled `line`; the
\* prompt of this iteration has been written.
ProcessLine(line) ==
    LET trimmed_line == trim(line)
        parsed == try_parse_from(<<"souldos">> \o Strings(split_whitespace(trimmed_line)))
    IN
    IF trimmed_line = <<>> THEN
        /\ Perform(<<P(Prompt)>>, 2, "Reading")
        /\ UNCHANGED <<command, nparsed>>
    ELSE IF IsExit(trimmed_line) THEN
        /\ Perform(<<P(Prompt), P("Exiting SoulWare CLI...")>>, 2, "Terminated")
        /\ UNCHANGED <<command, nparsed>>
    ELSE
        /\ nparsed' = nparsed + 1
        /\ IF parsed.ok /\ parsed.command # NoCommand THEN
               /\ command' = parsed.command
               /\ Perform(<<P(Prompt)>>, 2, "Dispatching")
           ELSE IF parsed.ok THEN
               \* print_help() either writes the help or returns the error.
               /\ command' = command
               /\ \/ Perform(<<P(Prompt), T("clap: help")>>, 2, "Reading")
                  \/ Perform(<<P(Prompt), P("Error displaying help: io error")>>, 2, "Reading")
           ELSE
               \* e.print() either writes the message or returns the error.
               /\ command' = command
               /\ \/ Perform(<<P(Prompt), T("clap: " \o parsed.kind)>>, 2, "Reading")
                  \/ Perform(<<P(Prompt),
                               P("Error displaying command parse error: io error"),
                               P("Original error was: clap: " \o parsed.kind)>>, 2, "Reading")

\* read_line returned Ok(n) with n > 0.
ReadLine ==
    \E line \in Lines :
        /\ pc = "Reading"
        /\ prompts < MaxPrompts
        /\ prompts' = prompts + 1
        /\ lastRead' = [kind |-> "line", line |-> line]
        /\ ProcessLine(line)
        /\ UNCHANGED manifest

\* read_line returned Ok(0): nothing was appended and `line` stays empty.
ReadEof ==
    /\ pc = "Reading"
    /\ prompts < MaxPrompts
    /\ prompts' = prompts + 1
    /\ lastRead' = [kind |-> "eof", line |-> <<>>]
    /\ ProcessLine(<<>>)
    /\ UNCHANGED manifest

\* read_line returned Err: main.rs 208-211.
ReadError ==
    /\ pc = "Reading"
    /\ prompts < MaxPrompts
    /\ prompts' = prompts + 1
    /\ lastRead' = [kind |-> "error", line |-> <<>>]
    /\ Perform(<<P(Prompt), P("Error reading input.")>>, 2, "Terminated")
    /\ UNCHANGED <<manifest, command, nparsed>>

\* A handler that drops the module it has just checked from the manifest.
DispatchDroppingModule ==
    /\ pc = "Dispatching"
    /\ \E now \in Clock : Perform(handle_command(command, manifest, now), 1, "Reading")
    /\ manifest' = IF command.variant = "CheckModuleIntegrity" /\ command.args # <<>>
                   THEN [n \in DOMAIN manifest \ {command.args[1]} |-> manifest[n]]
                   ELSE manifest
    /\ command' = NoCommand
    /\ UNCHANGED <<lastRead, prompts, nparsed>>

\* main.rs 229-230: handle_command(command_enum, &hal), then back to the prompt.
Dispatch ==
    /\ pc = "Dispatching"
    /\ \E now \in Clock : Perform(handle_command(command, manifest, now), 1, "Reading")
    /\ command' = NoCommand
    /\ UNCHANGED <<manifest, lastRead, prompts, nparsed>>

Next ==
    \/ BootBanner
    \/ BootIntegrity
    \/ BootStatus
    \/ BootNpu
    \/ PromptPanics
    \/ ReadLine
    \/ ReadEof
    \/ ReadError
    \/ Dispatch

Spec == Init /\ [][Next]_vars

(***************************************************************************)
(* verify_module_signature on its own: any module name, any trust source.  *)
(***************************************************************************)
ModuleNames ==
    {"SoulOS_Core", "TensorMemoryDriver", "EmotionalResonanceEngine", "UserInterfaceModule",
     "RustHAL_Interface", "GhostModule", "NonExistentModule", "userinterfacemodule", ""}

SignatureSources ==
    {LedgerSource, InternalSource, "GitHubBlockchainLedger", "internalmanifest", "ledger", ""}

InitHal ==
    /\ pc = "Hal"
    /\ manifest = MockHal_new
    /\ lastRead = NoRead
    /\ command = NoCommand
    /\ prompts = 0
    /\ nparsed = 0
    /\ halLog = <<>>
    /\ out = <<>>

HalVerify ==
    \E module_name \in ModuleNames, signature_source \in SignatureSources :
        /\ pc = "Hal"
        /\ Len(halLog) < MaxCalls
        /\ Perform(verify_events(manifest, module_name, signature_source), 1, "Hal")
        /\ UNCHANGED <<manifest, lastRead, command, prompts, nparsed>>

NextHal == HalVerify

SpecHal == InitHal /\ [][NextHal]_vars

(***************************************************************************)
(* Properties                                                              *)
(***************************************************************************)
ManifestNames ==
    {"SoulOS_Core", "TensorMemoryDriver", "EmotionalResonanceEngine", "UserInterfaceModule"}

VerifyCalls == {i \in DOMAIN halLog : halLog[i].method = "verify_module_signature"}

Logged(module_name, signature_source, result) ==
    \E i \in VerifyCalls :
        halLog[i].args = <<module_name, signature_source>> /\ halLog[i].result = result

\* C1: with the ledger selector, a manifest name verifies (Ok(true)) unless it
\* is UserInterfaceModule, which fails (Ok(false)); a manifest name never
\* yields an error.
C1_LedgerManifestOutcome ==
    \A i \in VerifyCalls :
        (halLog[i].args[2] = "GitHubBlockchainLedger (Simulated)"
            /\ halLog[i].args[1] \in ManifestNames)
        => /\ halLog[i].result.tag = "Ok"
           /\ halLog[i].result.value = (halLog[i].args[1] # "UserInterfaceModule")

C1_Witness ==
    /\ Logged("UserInterfaceModule", "GitHubBlockchainLedger (Simulated)",
              [tag |-> "Ok", value |-> FALSE])
    /\ Logged("TensorMemoryDriver", "GitHubBlockchainLedger (Simulated)",
              [tag |-> "Ok", value |-> TRUE])

\* C2: with the internal selector the result is Ok(true) exactly for the
\* manifest names and RustHAL_Interface, an error for every other name, and
\* never Ok(false).
C2_InternalOutcome ==
    \A i \in VerifyCalls :
        halLog[i].args[2] = "InternalManifest"
        => IF halLog[i].args[1] \in ManifestNames \cup {"RustHAL_Interface"}
           THEN halLog[i].result = [tag |-> "Ok", value |-> TRUE]
           ELSE halLog[i].result.tag = "Err"

C2_Witness ==
    /\ Logged("RustHAL_Interface", "InternalManifest", [tag |-> "Ok", value |-> TRUE])
    /\ \E i \in VerifyCalls :
          /\ halLog[i].args = <<"GhostModule", "InternalManifest">>
          /\ halLog[i].result.tag = "Err"

\* C3: with the ledger selector, a name that is no key of the manifest
\* (RustHAL_Interface included) yields the "not listed" error, never Ok.
C3_LedgerAbsentIsError ==
    \A i \in VerifyCalls :
        (halLog[i].args[2] = "GitHubBlockchainLedger (Simulated)"
            /\ halLog[i].args[1] \notin ManifestNames)
        => halLog[i].result =
              [tag |-> "Err",
               msg |-> "Module '" \o halLog[i].args[1]
                          \o "' not listed in the simulated GitHub Blockchain Ledger."]

C3_Witness ==
    /\ \E i \in VerifyCalls :
          /\ halLog[i].args = <<"RustHAL_Interface", "GitHubBlockchainLedger (Simulated)">>
          /\ halLog[i].result.tag = "Err"
    /\ \E i \in VerifyCalls :
          /\ halLog[i].args = <<"GhostModule", "GitHubBlockchainLedger (Simulated)">>
          /\ halLog[i].result.tag = "Err"

\* C4: a trust source other than the two selectors yields the "unknown
\* signature source" error for every module name, in the manifest or not.
C4_UnknownSourceIsError ==
    \A i \in VerifyCalls :
        halLog[i].args[2] \notin {"GitHubBlockchainLedger (Simulated)", "InternalManifest"}
        => halLog[i].result =
              [tag |-> "Err", msg |-> "Unknown signature source: " \o halLog[i].args[2]]

C4_Witness ==
    /\ \E i \in VerifyCalls :
          /\ halLog[i].args = <<"GhostModule", "ledger">>
          /\ halLog[i].result.tag = "Err"
    /\ \E i \in VerifyCalls :
          /\ halLog[i].args = <<"SoulOS_Core", "internalmanifest">>
          /\ halLog[i].result.tag = "Err"

\* exit and quit in every letter case.
ExitWords ==
    {<<a, b, c, d>> : a \in {"e", "E"}, b \in {"x", "X"}, c \in {"i", "I"}, d \in {"t", "T"}}
    \cup
    {<<a, b, c, d>> : a \in {"q", "Q"}, b \in {"u", "U"}, c \in {"i", "I"}, d \in {"t", "T"}}

BootStates == {"BootBanner", "BootCheck1", "BootCheck2", "BootCheck3", "BootStatus", "BootNpu"}

\* The program has left the loop: by a break or by a panic.
Ended == {"Terminated", "Panicked"}

\* C5: once the loop has read input, the program has ended only after a read
\* error or a line whose trimmed text is exit or quit in some letter case;
\* after any other line (empty, unparsable, without subcommand, or dispatched)
\* it is reading or dispatching.
C5_LoopEndsOnlyOnExitOrReadError ==
    /\ (pc \in Ended /\ lastRead.kind # "none")
          => \/ lastRead.kind = "error"
             \/ lastRead.kind = "line" /\ trim(lastRead.line) \in ExitWords
    /\ (lastRead.kind = "line" /\ trim(lastRead.line) \notin ExitWords)
          => pc \in {"Reading", "Dispatching"}

\* C6: a line whose trimmed text is exit or quit in any letter case ends the
\* loop at once: it is not tokenized, no command is dispatched, no HAL call is
\* made, and nothing happens once the program has ended.
C6_ExitTerminatesWithoutDispatch ==
    [][/\ pc \notin Ended
       /\ (prompts' = prompts + 1 /\ lastRead'.kind = "line"
              /\ trim(lastRead'.line) \in ExitWords)
          => /\ pc' \in Ended
             /\ nparsed' = nparsed
             /\ command' = command
             /\ halLog' = halLog]_vars

C6_Witness ==
    /\ pc = "Terminated"
    /\ lastRead = [kind |-> "line", line |-> <<"U+00A0">> \o Chars("Quit") \o <<"U+2003", "\n">>]
    /\ out[Len(out)] = "Exiting SoulWare CLI..."
    /\ prompts = 2
    /\ nparsed = 1

\* The line check-module-integrity prints for a module and an outcome.
ResultLines(name) ==
    {"Module '" \o name \o "' integrity: VERIFIED",
     "Module '" \o name \o "' integrity: VERIFICATION FAILED",
     "Error checking module '" \o name \o "' integrity: Module '" \o name
         \o "' not listed in the simulated GitHub Blockchain Ledger."}

\* C7: check-module-integrity <name> makes one verify_module_signature call,
\* with the ledger selector, and prints one result line: VERIFIED for a manifest
\* module other than UserInterfaceModule, VERIFICATION FAILED for
\* UserInterfaceModule, the ledger error for an absent name. Without a name it
\* prints the usage line and calls nothing.
C7_CheckModuleIntegrity ==
    [][(pc = "Dispatching" /\ command.variant = "CheckModuleIntegrity")
       => IF command.args = <<>>
          THEN /\ halLog' = halLog
               /\ out' = Append(out, "Usage: check-module-integrity <module_name>")
          ELSE LET name == command.args[1]
                   printed == SubSeq(out', Len(out) + 1, Len(out'))
               IN  /\ Len(halLog') = Len(halLog) + 1
                   /\ SubSeq(halLog', 1, Len(halLog)) = halLog
                   /\ halLog'[Len(halLog')].method = "verify_module_signature"
                   /\ halLog'[Len(halLog')].args = <<name, "GitHubBlockchainLedger (Simulated)">>
                   /\ Cardinality({i \in DOMAIN printed : printed[i] \in ResultLines(name)}) = 1
                   /\ printed[Len(printed)] =
                         IF name = "UserInterfaceModule"
                         THEN "Module '" \o name \o "' integrity: VERIFICATION FAILED"
                         ELSE IF name \in ManifestNames
                         THEN "Module '" \o name \o "' integrity: VERIFIED"
                         ELSE "Error checking module '" \o name \o "' integrity: Module '"
                                  \o name \o "' not listed in the simulated GitHub Blockchain Ledger."
      ]_vars

BootCalls ==
    <<[method |-> "verify_module_signature", args |-> <<"SoulOS_Core", "InternalManifest">>],
      [method |-> "verify_module_signature", args |-> <<"TensorMemoryDriver", "InternalManifest">>],
      [method |-> "verify_module_signature", args |-> <<"RustHAL_Interface", "InternalManifest">>],
      [method |-> "get_system_status", args |-> <<>>],
      [method |-> "initialize_npu", args |-> <<>>]>>

\* The boot calls made when the program is at pc; past the boot states, all.
BootDone ==
    CASE pc \in {"BootBanner", "BootCheck1"} -> 0
      [] pc = "BootCheck2" -> 1
      [] pc = "BootCheck3" -> 2
      [] pc = "BootStatus" -> 3
      [] pc = "BootNpu" -> 4
      [] OTHER -> Len(BootCalls)

\* C8: the boot sequence makes exactly the five calls, once each and in
\* order: three internal-manifest checks (SoulOS_Core, TensorMemoryDriver,
\* RustHAL_Interface), the status fetch and the NPU initialisation. No input is
\* read during boot, every boot step has a successor, and the program leaves
\* the boot states only with all five calls made.
C8_BootSequence ==
    /\ Len(halLog) >= BootDone
    /\ \A i \in 1..BootDone :
          [method |-> halLog[i].method, args |-> halLog[i].args] = BootCalls[i]
    /\ pc \in BootStates
          => Len(halLog) = BootDone /\ prompts = 0 /\ lastRead.kind = "none" /\ ENABLED Next
    /\ prompts = 0 => Len(halLog) = BootDone

\* C9: the manifest always holds its four initial entries, and two
\* verify_module_signature calls with the same name and selector have the same
\* result wherever they occur in a run.
C9_ManifestReadOnly ==
    /\ DOMAIN manifest = ManifestNames
    /\ manifest["SoulOS_Core"] =
          [hash |-> "hash_core_123_abc", url |-> "gh://soulware/core/v1.0"]
    /\ manifest["TensorMemoryDriver"] =
          [hash |-> "hash_tensor_xyz_789", url |-> "gh://soulware/tensor/v0.9"]
    /\ manifest["EmotionalResonanceEngine"] =
          [hash |-> "hash_ere_qwerty_456", url |-> "gh://soulware/ere/v0.5"]
    /\ manifest["UserInterfaceModule"] =
          [hash |-> "hash_ui_zxcv_321", url |-> "gh://soulware/ui/v1.1"]
    /\ \A i, j \in VerifyCalls :
          halLog[i].args = halLog[j].args => halLog[i].result = halLog[j].result

C9_Witness ==
    /\ pc = "Reading"
    /\ prompts = 2
    /\ \E i, j \in VerifyCalls :
          /\ i < j
          /\ halLog[i].args = <<"UserInterfaceModule", "GitHubBlockchainLedger (Simulated)">>
          /\ halLog[j].args = halLog[i].args

\* C10: after a read that found the input exhausted (Ok(0), no error) the
\* loop is back at reading with the prompt as the last thing written: it has
\* not ended, and nothing was parsed or dispatched.
C10_EndOfInputDoesNotTerminate ==
    lastRead.kind = "eof"
    => /\ pc = "Reading"
       /\ command = NoCommand
       /\ out[Len(out)] = Prompt

====
